---- MODULE Spec2Model ----
(***************************************************************************)
(* Model of parse_scancode_results.py: the ScanCodeAnalyzer pipeline       *)
(* (load, extract, tally, classify, report, export) and main.              *)
(*                                                                         *)
(* Python str values whose content the code inspects (license keys, file   *)
(* paths, formatted messages) are sequences of one-character strings.      *)
(* A JSON object is a function whose domain is the set of members that are *)
(* present, so an absent member is a name outside DOMAIN.                  *)
(***************************************************************************)
EXTENDS Integers, Sequences, FiniteSets, TLC

VARIABLES
    argc,            \* len(sys.argv) of the current process
    disk,            \* what the input path holds on disk
    hash_seed,       \* the str hash seed of the current process
    pc,              \* position of the current process inside main
    data,            \* ScanCodeAnalyzer.data
    stdout,          \* lines printed by the current process
    exit_status,     \* exit status of the current process, -1 while it runs
    outfile,         \* content of license_analysis_detailed.json on disk
    output_written,  \* the current process has written outfile
    prev_outfile,    \* what outfile held when the current process started
    runs,            \* number of processes started so far
    file_info,       \* argument of extract_licenses_from_file (unit runs)
    results,         \* its return value (unit runs)
    problem_sets,    \* argument of _add_to_problem_sets (unit runs)
    added            \* arguments of the _add_to_problem_sets calls so far

vars == <<argc, disk, hash_seed, pc, data, stdout, exit_status, outfile,
          output_written, prev_outfile, runs, file_info, results,
          problem_sets, added>>

mainVars == <<argc, disk, hash_seed, pc, data, stdout, exit_status, outfile,
              output_written, prev_outfile, runs>>

extractVars == <<file_info, results>>

classifyVars == <<problem_sets, added>>

mainVarsButPc == <<argc, disk, hash_seed, data, stdout, exit_status, outfile,
                   output_written, prev_outfile, runs>>

-----------------------------------------------------------------------------
(* Strings *)

GPL_2_0 == <<"g", "p", "l", "-", "2", ".", "0">>

GPL_3_0 == <<"g", "p", "l", "-", "3", ".", "0">>

AGPL_3_0 == <<"a", "g", "p", "l", "-", "3", ".", "0">>

GPL_2_0_PLUS == <<"g", "p", "l", "-", "2", ".", "0", "-", "p", "l", "u", "s">>

GPL_3_0_PLUS == <<"g", "p", "l", "-", "3", ".", "0", "-", "p", "l", "u", "s">>

LGPL_2_1 == <<"l", "g", "p", "l", "-", "2", ".", "1">>

LGPL_3_0 == <<"l", "g", "p", "l", "-", "3", ".", "0">>

CC_BY_SA_4_0 == <<"c", "c", "-", "b", "y", "-", "s", "a", "-", "4", ".", "0">>

UNKNOWN == <<"u", "n", "k", "n", "o", "w", "n">>

OTHER_PERMISSIVE == <<"o", "t", "h", "e", "r", "-", "p", "e", "r", "m", "i", "s", "s", "i", "v", "e">>

OTHER_COPYLEFT == <<"o", "t", "h", "e", "r", "-", "c", "o", "p", "y", "l", "e", "f", "t">>

UNKNOWN_LICENSE_REFERENCE == <<"u", "n", "k", "n", "o", "w", "n", "-", "l", "i", "c", "e", "n", "s", "e", "-", "r", "e", "f", "e", "r", "e", "n", "c", "e">>

PathUnknown == <<"U", "n", "k", "n", "o", "w", "n">>

LicensePrefix == <<"L", "i", "c", "e", "n", "s", "e", ":", " ">>

ScoreInfix == <<",", " ", "S", "c", "o", "r", "e", ":", " ">>

UpperCase == <<"A", "B", "C", "D", "E", "F", "G", "H", "I", "J", "K", "L", "M", "N", "O", "P", "Q", "R", "S", "T", "U", "V", "W", "X", "Y", "Z">>

LowerCase == <<"a", "b", "c", "d", "e", "f", "g", "h", "i", "j", "k", "l", "m", "n", "o", "p", "q", "r", "s", "t", "u", "v", "w", "x", "y", "z">>

Digit == <<"0", "1", "2", "3", "4", "5", "6", "7", "8", "9">>

Punctuation == <<" ", "-", ".", ",", ":", "/">>

Alphabet == Punctuation \o Digit \o UpperCase \o LowerCase

Range(s) == {s[i] : i \in 1..Len(s)}

\* ord(c), as a position in Alphabet
Ord == [c \in Range(Alphabet) |-> CHOOSE i \in 1..Len(Alphabet) : Alphabet[i] = c]

LowerChar == [c \in Range(Alphabet) |->
                 IF c \in Range(UpperCase)
                 THEN LowerCase[CHOOSE i \in 1..26 : UpperCase[i] = c]
                 ELSE c]

\* str.lower()
Lower(s) == [i \in 1..Len(s) |-> LowerChar[s[i]]]

\* the Python test `sub in s` on two str values
Contains(s, sub) ==
    \E i \in 0..(Len(s) - Len(sub)) : SubSeq(s, i + 1, i + Len(sub)) = sub

RECURSIVE Str(_)
\* str(n) of an int n >= 0
Str(n) == IF n < 10 THEN <<Digit[n + 1]>>
          ELSE Str(n \div 10) \o <<Digit[(n % 10) + 1]>>

\* dict.get(k, default)
Get(d, k, default) == IF k \in DOMAIN d THEN d[k] ELSE default

\* truth value of d.get(k) when the member is a str or a list
Truthy(d, k) == k \in DOMAIN d /\ d[k] # <<>>

RECURSIVE MaxOf(_)
\* max(list) of a non-empty list of numbers
MaxOf(s) == IF Len(s) = 1 THEN s[1]
            ELSE LET m == MaxOf(Tail(s)) IN IF s[1] >= m THEN s[1] ELSE m

RECURSIVE Flatten(_)
Flatten(ss) == IF ss = <<>> THEN <<>> ELSE Head(ss) \o Flatten(Tail(ss))

-----------------------------------------------------------------------------
(* ScanCodeAnalyzer.__init__: the static category tables *)

ProblemCategories == <<"gpl", "agpl", "copyleft", "commercial_unfriendly", "unknown">>

\* the tables with gpl-3.0 left out of the copyleft list
problematic_licenses_short_copyleft ==
    [gpl |-> <<GPL_2_0, GPL_3_0, GPL_2_0_PLUS, GPL_3_0_PLUS>>,
     agpl |-> <<AGPL_3_0, GPL_3_0_PLUS>>,
     copyleft |-> <<GPL_2_0, LGPL_2_1, LGPL_3_0, AGPL_3_0>>,
     commercial_unfriendly |-> <<GPL_2_0, GPL_3_0, AGPL_3_0, CC_BY_SA_4_0>>,
     unknown |-> <<UNKNOWN, OTHER_PERMISSIVE, OTHER_COPYLEFT, UNKNOWN_LICENSE_REFERENCE>>]

problematic_licenses ==
    [gpl |-> <<GPL_2_0, GPL_3_0, GPL_2_0_PLUS, GPL_3_0_PLUS>>,
     agpl |-> <<AGPL_3_0, GPL_3_0_PLUS>>,
     copyleft |-> <<GPL_2_0, GPL_3_0, LGPL_2_1, LGPL_3_0, AGPL_3_0>>,
     commercial_unfriendly |-> <<GPL_2_0, GPL_3_0, AGPL_3_0, CC_BY_SA_4_0>>,
     unknown |-> <<UNKNOWN, OTHER_PERMISSIVE, OTHER_COPYLEFT, UNKNOWN_LICENSE_REFERENCE>>]

\* key order of the `problems` dict literal
Categories == <<"copyleft", "gpl", "agpl", "commercial_unfriendly", "unknown", "low_confidence">>

LowConfidenceThreshold == 70

IssueThreshold == 50

DefaultScore == 100

-----------------------------------------------------------------------------
(* extract_licenses_from_file *)

ExpressionFindings(fi) ==
    IF Truthy(fi, "detected_license_expression")
    THEN <<[key |-> fi["detected_license_expression"],
            name |-> fi["detected_license_expression"],
            score |-> DefaultScore]>>
    ELSE <<>>

DetectionKey(lic) ==
    IF Truthy(lic, "license_expression") THEN lic["license_expression"]
    ELSE IF Truthy(lic, "license_expression_spdx") THEN lic["license_expression_spdx"]
    ELSE UNKNOWN

\* the score of the first match in place of the maximum
DetectionScoreFirst(lic) ==
    IF Truthy(lic, "matches")
    THEN Get(lic["matches"][1], "score", DefaultScore)
    ELSE DefaultScore

DetectionScore(lic) ==
    IF Truthy(lic, "matches")
    THEN MaxOf([i \in 1..Len(lic["matches"]) |->
                    Get(lic["matches"][i], "score", DefaultScore)])
    ELSE DefaultScore

DetectionFinding(lic) ==
    [key |-> DetectionKey(lic), name |-> DetectionKey(lic), score |-> DetectionScore(lic)]

LegacyFinding(lic) ==
    LET key == Get(lic, "key", UNKNOWN)
    IN  [key |-> key, name |-> Get(lic, "name", key), score |-> Get(lic, "score", DefaultScore)]

\* the three shapes tried as alternatives: only the first one present is used
extract_licenses_first_shape(fi) ==
    LET dets == Get(fi, "license_detections", <<>>)
        lics == Get(fi, "licenses", <<>>)
    IN  IF ExpressionFindings(fi) # <<>> THEN ExpressionFindings(fi)
        ELSE IF dets # <<>> THEN [i \in 1..Len(dets) |-> DetectionFinding(dets[i])]
        ELSE [i \in 1..Len(lics) |-> LegacyFinding(lics[i])]

extract_licenses_from_file(fi) ==
    LET dets == Get(fi, "license_detections", <<>>)
        lics == Get(fi, "licenses", <<>>)
    IN  ExpressionFindings(fi)
        \o [i \in 1..Len(dets) |-> DetectionFinding(dets[i])]
        \o [i \in 1..Len(lics) |-> LegacyFinding(lics[i])]

-----------------------------------------------------------------------------
(* The parsed document.  json.load returns any JSON value; the top level   *)
(* is either an object, [type |-> "object", members |-> m], or an array,   *)
(* [type |-> "array", items |-> s].                                        *)

IsDict(d) == d.type = "object"

\* `not self.data`
Falsy(d) == IF IsDict(d) THEN DOMAIN d.members = {} ELSE d.items = <<>>

\* `'files' in self.data` (no array of the model has the element 'files')
HasFiles(d) == IsDict(d) /\ "files" \in DOMAIN d.members

\* the guard `not self.data or 'files' not in self.data`
NoFilesSection(d) == Falsy(d) \/ ~HasFiles(d)

\* `self.data['files']` in place of `self.data.get('files', [])`: KeyError
\* when the member is absent
TotalFilesRaisesIndexed(d) ==
    ~Falsy(d) /\ (~IsDict(d) \/ "files" \notin DOMAIN d.members)

\* `self.data.get('files', []) if self.data else []` raises AttributeError
\* on a non-empty array
TotalFilesRaises(d) == ~Falsy(d) /\ ~IsDict(d)

total_files(d) == IF Falsy(d) THEN 0 ELSE Len(Get(d.members, "files", <<>>))

-----------------------------------------------------------------------------
(* get_files_with_issues *)

LowConfidenceDetails(lic) == LicensePrefix \o lic.key \o ScoreInfix \o Str(lic.score)

\* the classifier's threshold in place of the scanner's
FileIssuesAt70(fi) ==
    LET file_path == Get(fi, "path", PathUnknown)
        found == extract_licenses_from_file(fi)
        low == SelectSeq(found, LAMBDA lic : lic.score < LowConfidenceThreshold)
    IN  (IF Truthy(fi, "scan_errors")
         THEN <<[file |-> file_path, type |-> "scan_error", details |-> fi["scan_errors"]]>>
         ELSE <<>>)
        \o [i \in 1..Len(low) |->
               [file |-> file_path, type |-> "low_confidence_license",
                details |-> LowConfidenceDetails(low[i])]]

FileIssues(fi) ==
    LET file_path == Get(fi, "path", PathUnknown)
        found == extract_licenses_from_file(fi)
        low == SelectSeq(found, LAMBDA lic : lic.score < IssueThreshold)
    IN  (IF Truthy(fi, "scan_errors")
         THEN <<[file |-> file_path, type |-> "scan_error", details |-> fi["scan_errors"]]>>
         ELSE <<>>)
        \o [i \in 1..Len(low) |->
               [file |-> file_path, type |-> "low_confidence_license",
                details |-> LowConfidenceDetails(low[i])]]

get_files_with_issues(d) ==
    IF NoFilesSection(d) THEN <<>>
    ELSE Flatten([i \in 1..Len(d.members.files) |-> FileIssues(d.members.files[i])])

-----------------------------------------------------------------------------
(* analyze_licenses.  A dict is [order |-> keys in insertion order,        *)
(* map |-> value of each key].                                             *)

EmptyDict == [order |-> <<>>, map |-> <<>>]

DictSet(dict, k, v) ==
    [order |-> IF k \in Range(dict.order) THEN dict.order ELSE Append(dict.order, k),
     map |-> [x \in Range(dict.order) \cup {k} |-> IF x = k THEN v ELSE dict.map[x]]]

DictGet(dict, k, default) == IF k \in Range(dict.order) THEN dict.map[k] ELSE default

_process_license_detection(lic_info, file_path, tally) ==
    LET key == lic_info.key
    IN  [all_licenses |-> DictSet(tally.all_licenses, key,
                                  DictGet(tally.all_licenses, key, 0) + 1),
         license_stats |-> DictSet(tally.license_stats, key,
                                   Append(DictGet(tally.license_stats, key, <<>>),
                                          [file |-> file_path, name |-> lic_info.name,
                                           score |-> lic_info.score]))]

RECURSIVE TallyFindings(_, _, _)
TallyFindings(found, file_path, tally) ==
    IF found = <<>> THEN tally
    ELSE TallyFindings(Tail(found), file_path,
                       _process_license_detection(Head(found), file_path, tally))

RECURSIVE TallyFiles(_, _)
TallyFiles(files, tally) ==
    IF files = <<>> THEN tally
    ELSE TallyFiles(Tail(files),
                    TallyFindings(extract_licenses_from_file(Head(files)),
                                  Get(Head(files), "path", PathUnknown), tally))

analyze_licenses(d) ==
    LET empty == [license_stats |-> EmptyDict, all_licenses |-> EmptyDict]
    IN  IF NoFilesSection(d) THEN empty ELSE TallyFiles(d.members.files, empty)

-----------------------------------------------------------------------------
(* Python sets of (file_path, license_key, score) tuples.  A set is the    *)
(* sequence of its distinct elements in insertion order; iteration visits  *)
(* the hash table by slot (8 slots, the size of a small set), and the slot *)
(* of a tuple depends on the str hash seed of the process.                 *)

RECURSIVE StrHash(_, _)
StrHash(s, seed) ==
    IF s = <<>> THEN (5381 + 977 * seed) % 65521
    ELSE ((StrHash(SubSeq(s, 1, Len(s) - 1), seed) * 33) + Ord[s[Len(s)]] * (seed + 1))
         % 65521

TupleHash(t, seed) ==
    (((StrHash(t[1], seed) * 31 + StrHash(t[2], seed)) % 65521) * 31 + t[3])
    % 65521

Slot(t, seed) == TupleHash(t, seed) % 8

\* set.add
SetAdd(s, t) == IF t \in Range(s) THEN s ELSE Append(s, t)

RECURSIVE InsertBySlot(_, _, _)
InsertBySlot(sorted, t, seed) ==
    IF sorted = <<>> THEN <<t>>
    ELSE IF Slot(t, seed) < Slot(Head(sorted), seed) THEN <<t>> \o sorted
    ELSE <<Head(sorted)>> \o InsertBySlot(Tail(sorted), t, seed)

RECURSIVE SetIter(_, _)
\* the order in which `for x in item_set` visits the set
SetIter(s, seed) ==
    IF s = <<>> THEN <<>>
    ELSE InsertBySlot(SetIter(SubSeq(s, 1, Len(s) - 1), seed), s[Len(s)], seed)

-----------------------------------------------------------------------------
(* identify_problematic_licenses *)

EmptyProblemSets == [c \in Range(Categories) |-> <<>>]

\* the test without .lower()
MatchesCategoryCaseSensitive(license_key, category) ==
    \E i \in 1..Len(problematic_licenses[category]) :
        Contains(license_key, problematic_licenses[category][i])

\* any(problem_license in license_key.lower() for problem_license in license_list)
MatchesCategory(license_key, category) ==
    \E i \in 1..Len(problematic_licenses[category]) :
        Contains(Lower(license_key), problematic_licenses[category][i])

\* `score <= 70` in place of `score < 70`
_add_to_problem_sets_inclusive(ps, license_key, file_path, score) ==
    [c \in DOMAIN ps |->
        IF \/ c \in Range(ProblemCategories) /\ MatchesCategory(license_key, c)
           \/ c = "low_confidence" /\ score <= LowConfidenceThreshold
        THEN SetAdd(ps[c], <<file_path, license_key, score>>)
        ELSE ps[c]]

_add_to_problem_sets(ps, license_key, file_path, score) ==
    [c \in DOMAIN ps |->
        IF \/ c \in Range(ProblemCategories) /\ MatchesCategory(license_key, c)
           \/ c = "low_confidence" /\ score < LowConfidenceThreshold
        THEN SetAdd(ps[c], <<file_path, license_key, score>>)
        ELSE ps[c]]

_convert_problem_sets_to_list(ps, seed) ==
    [c \in Range(Categories) |->
        LET it == SetIter(ps[c], seed)
        IN  [i \in 1..Len(it) |-> [file |-> it[i][1], name |-> it[i][2], score |-> it[i][3]]]]

RECURSIVE AddDetections(_, _, _)
AddDetections(ps, license_key, dets) ==
    IF dets = <<>> THEN ps
    ELSE AddDetections(_add_to_problem_sets(ps, license_key, Head(dets).file, Head(dets).score),
                       license_key, Tail(dets))

RECURSIVE AddLicenses(_, _, _)
AddLicenses(ps, license_stats, keys) ==
    IF keys = <<>> THEN ps
    ELSE AddLicenses(AddDetections(ps, Head(keys), license_stats.map[Head(keys)]),
                     license_stats, Tail(keys))

ProblemSetsOf(license_stats) ==
    AddLicenses(EmptyProblemSets, license_stats, license_stats.order)

identify_problematic_licenses(license_stats, seed) ==
    _convert_problem_sets_to_list(ProblemSetsOf(license_stats), seed)

-----------------------------------------------------------------------------
(* generate_recommendations *)

RecommendationMessage ==
    [gpl |-> "GPL licenses detected. Review compatibility with your project license.",
     agpl |-> "AGPL licenses detected. Network copyleft requirements apply.",
     unknown |-> "Unknown licenses detected. Manual review required."]

Recommendation(problems, category, severity) ==
    IF problems[category] # <<>>
    THEN <<[severity |-> severity, category |-> category,
            message |-> RecommendationMessage[category],
            affected_files |-> Len(problems[category])]>>
    ELSE <<>>

generate_recommendations(problems) ==
    Recommendation(problems, "gpl", "high")
    \o Recommendation(problems, "agpl", "critical")
    \o Recommendation(problems, "unknown", "medium")

-----------------------------------------------------------------------------
(* The report printers.  A printed line is a record: `line` is the text of *)
(* the print call and the other fields are the values formatted into it.   *)

InputPath == "scan.json"

OutputPath == "license_analysis_detailed.json"

Line(text) == [line |-> text]

Rule == Line("================")

Dashes == Line("----------------")

Blank == Line("")

\* category.upper().replace('_', ' ')
CategoryLabel ==
    [copyleft |-> "COPYLEFT", gpl |-> "GPL", agpl |-> "AGPL",
     commercial_unfriendly |-> "COMMERCIAL UNFRIENDLY", unknown |-> "UNKNOWN",
     low_confidence |-> "LOW CONFIDENCE"]

OfType(issues, type) == SelectSeq(issues, LAMBDA i : i.type = type)

Take(s, n) == SubSeq(s, 1, IF Len(s) < n THEN Len(s) ELSE n)

RECURSIVE SumCounts(_, _)
\* sum(all_licenses.values())
SumCounts(dict, keys) ==
    IF keys = <<>> THEN 0 ELSE dict.map[Head(keys)] + SumCounts(dict, Tail(keys))

RECURSIVE InsertByCount(_, _, _)
InsertByCount(sorted, k, dict) ==
    IF sorted = <<>> THEN <<k>>
    ELSE IF dict.map[k] > dict.map[Head(sorted)] THEN <<k>> \o sorted
    ELSE <<Head(sorted)>> \o InsertByCount(Tail(sorted), k, dict)

RECURSIVE ByCount(_, _)
ByCount(keys, dict) ==
    IF keys = <<>> THEN <<>>
    ELSE InsertByCount(ByCount(SubSeq(keys, 1, Len(keys) - 1), dict), keys[Len(keys)], dict)

\* Counter.most_common(n): by count, largest first, ties in insertion order
most_common(dict, n) == Take(ByCount(dict.order, dict), n)

NoFilesLine(d) ==
    IF NoFilesSection(d) THEN <<Line("No 'files' section found in JSON")>> ELSE <<>>

_print_report_header(now) ==
    <<Rule, Line("SCANCODE LICENSE ANALYSIS REPORT"), Rule,
      [line |-> "Analyzed file: {}", file |-> InputPath],
      [line |-> "Generated on: {}", time |-> now],
      Blank>>

_print_basic_statistics(d, issues) ==
    <<Line("BASIC STATISTICS"),
      [line |-> "Total files scanned: {}", count |-> total_files(d)]>>
    \o (IF issues # <<>>
        THEN <<[line |-> "Files with scan errors: {}",
                count |-> Len(OfType(issues, "scan_error"))],
               [line |-> "Files with low confidence licenses: {}",
                count |-> Len(OfType(issues, "low_confidence_license"))]>>
        ELSE <<>>)
    \o <<Blank>>

_print_license_summary(all_licenses) ==
    LET top == most_common(all_licenses, 10)
    IN  <<Line("LICENSE SUMMARY"),
          [line |-> "Unique licenses detected: {}", count |-> Len(all_licenses.order)],
          [line |-> "Total license detections: {}",
           count |-> SumCounts(all_licenses, all_licenses.order)],
          Blank,
          Line("TOP 10 MOST COMMON LICENSES")>>
        \o [i \in 1..Len(top) |->
               [line |-> "{} : {} files", key |-> top[i], count |-> all_licenses.map[top[i]]]]
        \o <<Blank>>

CategoryListing(problems, category) ==
    LET issue_list == problems[category]
        shown == Take(issue_list, 5)
    IN  IF issue_list = <<>> THEN <<>>
        ELSE <<[line |-> "{} LICENSES ({} files):", category |-> CategoryLabel[category],
                count |-> Len(issue_list)]>>
             \o Flatten([i \in 1..Len(shown) |->
                            <<[line |-> "- {}", file |-> shown[i].file],
                              [line |-> "License: {} (Score: {})", name |-> shown[i].name,
                               score |-> shown[i].score]>>])
             \o (IF Len(issue_list) > 5
                 THEN <<[line |-> "... and {} more files", count |-> Len(issue_list) - 5]>>
                 ELSE <<>>)

_print_potential_issues(problems) ==
    <<Line("POTENTIAL LICENSE ISSUES"), Dashes>>
    \o (IF \A c \in Range(Categories) : problems[c] = <<>>
        THEN <<Line("No major license issues detected!")>>
        ELSE Flatten([i \in 1..Len(Categories) |-> CategoryListing(problems, Categories[i])]))
    \o <<Blank>>

_print_scan_errors(issues) ==
    LET scan_errors == OfType(issues, "scan_error")
        shown == Take(scan_errors, 10)
    IN  IF scan_errors = <<>> THEN <<>>
        ELSE <<Line("FILES WITH SCAN ERRORS"), Dashes>>
             \o Flatten([i \in 1..Len(shown) |->
                            <<[line |-> "{}", file |-> shown[i].file],
                              [line |-> "Error: {}", details |-> shown[i].details],
                              Blank>>])

Advisory(problems, category, text, advice) ==
    IF Len(problems[category]) > 0
    THEN <<[line |-> text, count |-> Len(problems[category])]>> \o advice
    ELSE <<>>

_print_recommendations(problems) ==
    <<Line("RECOMMENDATIONS"), Dashes>>
    \o Advisory(problems, "gpl", "{} files with GPL licenses detected",
                <<Line("- Review if GPL compatibility is acceptable for your project"),
                  Line("- Consider alternative implementations for critical files")>>)
    \o Advisory(problems, "agpl", "{} files with AGPL licenses detected",
                <<Line("- AGPL has network copyleft requirements"),
                  Line("- Avoid AGPL code in web services/SaaS applications")>>)
    \o Advisory(problems, "unknown", "{} files with unknown/unclear licenses",
                <<Line("- Manual review required for these files"),
                  Line("- Contact original authors for clarification")>>)
    \o Advisory(problems, "low_confidence", "{} files with low confidence license detection",
                <<Line("- Manual verification recommended"),
                  Line("- Check original source for accurate license information")>>)
    \o <<Rule>>

\* what generate_report prints when no call raises
generate_report(d, seed, now) ==
    LET issues == get_files_with_issues(d)
        tally == analyze_licenses(d)
        problems == identify_problematic_licenses(tally.license_stats, seed)
    IN  _print_report_header(now)
        \o NoFilesLine(d)
        \o _print_basic_statistics(d, issues)
        \o _print_license_summary(tally.all_licenses)
        \o _print_potential_issues(problems)
        \o _print_scan_errors(issues)
        \o _print_recommendations(problems)

\* the document export_detailed_report dumps
detailed_report(d, seed, now) ==
    LET tally == analyze_licenses(d)
        problems == identify_problematic_licenses(tally.license_stats, seed)
        issues == get_files_with_issues(d)
    IN  [exists |-> TRUE,
         metadata |-> [source_file |-> InputPath,
                       analysis_date |-> now,
                       total_files |-> total_files(d),
                       total_licenses |-> Len(tally.all_licenses.order),
                       total_license_detections |->
                           SumCounts(tally.all_licenses, tally.all_licenses.order)],
         license_statistics |-> tally.all_licenses,
         problematic_licenses |-> problems,
         scan_issues |-> issues,
         recommendations |-> generate_recommendations(problems)]

-----------------------------------------------------------------------------
(* Inputs *)

MaxFiles == 2

MaxRuns == 2

MaxHashSeed == 1

MaxMatches == 2

MaxDetections == 2

MaxLegacy == 2

MaxAdds == 2

HashSeeds == 0..MaxHashSeed

MIT == <<"m", "i", "t">>

GPL_2_0_UPPER == <<"G", "P", "L", "-", "2", ".", "0">>

GPL_2_0_AND_AGPL_3_0 == <<"g", "p", "l", "-", "2", ".", "0", " ", "A", "N", "D", " ", "a", "g", "p", "l", "-", "3", ".", "0">>

PathA == <<"s", "r", "c", "/", "a", ".", "c">>

PathB == <<"l", "i", "b", "/", "b", ".", "p", "y">>

RECURSIVE SeqsUpTo(_, _)
\* the sequences over S of length at most n
SeqsUpTo(S, n) ==
    IF n = 0 THEN {<<>>}
    ELSE LET shorter == SeqsUpTo(S, n - 1)
         IN  shorter \cup {Append(q, x) : q \in {r \in shorter : Len(r) = n - 1}, x \in S}

\* an optional member: absent, or present with one of the values
Optional(name, values) == {<<>>} \cup {name :> v : v \in values}

Members(A, B) == {a @@ b : a \in A, b \in B}

\* file records of the documents main is run on
MainFileRecords ==
    { <<>>,
      [path |-> PathA, scan_errors |-> <<"ERROR: timeout">>,
       detected_license_expression |-> MIT,
       licenses |-> <<[key |-> LGPL_2_1, score |-> 40]>>],
      [path |-> PathA,
       license_detections |-> <<[license_expression |-> GPL_2_0_UPPER,
                                 matches |-> <<[score |-> 40], [score |-> 90]>>]>>,
       licenses |-> <<[key |-> GPL_3_0, score |-> 45]>>],
      [path |-> PathB, licenses |-> <<[key |-> MIT, name |-> MIT, score |-> 65]>>],
      [path |-> PathB, detected_license_expression |-> AGPL_3_0,
       licenses |-> <<[score |-> 30]>>],
      [path |-> PathB, scan_errors |-> <<>>, detected_license_expression |-> <<>>,
       license_detections |-> <<[matches |-> <<>>]>>],
      [path |-> PathA,
       licenses |-> <<[key |-> GPL_2_0_AND_AGPL_3_0, score |-> 49],
                      [key |-> MIT, score |-> 70]>>] }

Documents ==
    {[type |-> "object", members |-> [files |-> fs]] : fs \in SeqsUpTo(MainFileRecords, MaxFiles)}
    \cup {[type |-> "object", members |-> <<>>],
          [type |-> "object", members |-> [headers |-> <<>>]],
          [type |-> "array", items |-> <<>>],
          [type |-> "array", items |-> <<1>>]}

DiskStates ==
    {[kind |-> "missing"], [kind |-> "garbage"]}
    \cup {[kind |-> "json", value |-> d] : d \in Documents}

MatchScores == {40, 90, 100}

MatchObjects == Optional("score", MatchScores)

DetectionObjects ==
    Members(Members(Optional("license_expression", {<<>>, GPL_2_0}),
                    Optional("license_expression_spdx", {LGPL_2_1})),
            Optional("matches", SeqsUpTo(MatchObjects, MaxMatches)))

ListedDetections ==
    { <<>>,
      [license_expression |-> GPL_2_0, matches |-> <<[score |-> 40]>>],
      [license_expression_spdx |-> LGPL_2_1] }

ListedLegacy ==
    { <<>>, [key |-> MIT], [key |-> GPL_3_0, name |-> GPL_3_0_PLUS, score |-> 45] }

\* file records extract_licenses_from_file is applied to on its own
ExtractInputs ==
    {[license_detections |-> <<d>>] : d \in DetectionObjects}
    \cup Members(Members(Optional("detected_license_expression", {<<>>, MIT}),
                         Optional("license_detections",
                                  SeqsUpTo(ListedDetections, MaxDetections))),
                 Optional("licenses", SeqsUpTo(ListedLegacy, MaxLegacy)))

LicenseKeys ==
    {MIT, GPL_2_0, GPL_2_0_UPPER, GPL_3_0_PLUS, AGPL_3_0, LGPL_2_1, LGPL_3_0,
     CC_BY_SA_4_0, OTHER_COPYLEFT, GPL_2_0_AND_AGPL_3_0}

Paths == {PathA, PathB}

Scores == {65, 100}

NoData == [type |-> "none"]

NoFile == [exists |-> FALSE]

-----------------------------------------------------------------------------
(* main *)

Exit(status, printed) ==
    /\ stdout' = stdout \o printed
    /\ exit_status' = status
    /\ pc' = "exited"

\* main up to the construction of the analyzer
MainCheckArgs ==
    /\ pc = "main"
    /\ IF argc # 2
       THEN Exit(1, <<Line("Usage: python parse_scancode_results.py <scancode_results.json>"),
                      Line("Example:"),
                      Line("python parse_scancode_results.py hwid_go_server_analysis.json")>>)
       ELSE IF disk.kind = "missing"
       THEN Exit(1, <<[line |-> "Error: File {} does not exist", file |-> InputPath]>>)
       ELSE /\ pc' = "construct"
            /\ UNCHANGED <<stdout, exit_status>>
    /\ UNCHANGED <<argc, disk, hash_seed, data, outfile, output_written, prev_outfile, runs>>
    /\ UNCHANGED <<extractVars, classifyVars>>

\* load_data with the JSONDecodeError handler falling through instead of exiting
load_data_swallow ==
    /\ pc = "construct"
    /\ CASE disk.kind = "json" ->
                /\ data' = disk.value
                /\ stdout' = Append(stdout, [line |-> "Successfully loaded {}", file |-> InputPath])
                /\ pc' = "report"
                /\ UNCHANGED exit_status
         [] disk.kind = "missing" ->
                /\ Exit(1, <<[line |-> "Error: File {} not found", file |-> InputPath]>>)
                /\ UNCHANGED data
         [] disk.kind = "garbage" ->
                /\ data' = [type |-> "object", members |-> <<>>]
                /\ stdout' = Append(stdout, Line("Error parsing JSON: {}"))
                /\ pc' = "report"
                /\ UNCHANGED exit_status
    /\ UNCHANGED <<argc, disk, hash_seed, outfile, output_written, prev_outfile, runs>>
    /\ UNCHANGED <<extractVars, classifyVars>>

\* ScanCodeAnalyzer(json_file): __init__ and load_data
load_data ==
    /\ pc = "construct"
    /\ CASE disk.kind = "json" ->
                /\ data' = disk.value
                /\ stdout' = Append(stdout, [line |-> "Successfully loaded {}", file |-> InputPath])
                /\ pc' = "report"
                /\ UNCHANGED exit_status
         [] disk.kind = "missing" ->
                /\ Exit(1, <<[line |-> "Error: File {} not found", file |-> InputPath]>>)
                /\ UNCHANGED data
         [] disk.kind = "garbage" ->
                /\ Exit(1, <<Line("Error parsing JSON: {}")>>)
                /\ UNCHANGED data
    /\ UNCHANGED <<argc, disk, hash_seed, outfile, output_written, prev_outfile, runs>>
    /\ UNCHANGED <<extractVars, classifyVars>>

\* analyzer.generate_report(); an uncaught exception ends the process with
\* status 1 (its traceback goes to stderr, which is not modelled)
GenerateReport ==
    /\ pc = "report"
    /\ IF TotalFilesRaises(data)
       THEN Exit(1, _print_report_header(runs) \o NoFilesLine(data))
       ELSE /\ stdout' = stdout \o generate_report(data, hash_seed, runs)
            /\ pc' = "export"
            /\ UNCHANGED exit_status
    /\ UNCHANGED <<argc, disk, hash_seed, data, outfile, output_written, prev_outfile, runs>>
    /\ UNCHANGED <<extractVars, classifyVars>>

\* analyzer.export_detailed_report() and the return from main
export_detailed_report ==
    /\ pc = "export"
    /\ outfile' = detailed_report(data, hash_seed, runs)
    /\ output_written' = TRUE
    /\ Exit(0, NoFilesLine(data)
               \o <<[line |-> "Detailed report exported to: {}", file |-> OutputPath]>>)
    /\ UNCHANGED <<argc, disk, hash_seed, data, prev_outfile, runs>>
    /\ UNCHANGED <<extractVars, classifyVars>>

\* the environment removes the input file before the analyzer opens it
RemoveInputFile ==
    /\ pc \in {"main", "construct"}
    /\ disk.kind # "missing"
    /\ disk' = [kind |-> "missing"]
    /\ UNCHANGED <<argc, hash_seed, pc, data, stdout, exit_status, outfile, output_written,
                   prev_outfile, runs>>
    /\ UNCHANGED <<extractVars, classifyVars>>

\* the same command line is run again, in a new process
Rerun ==
    /\ pc = "exited"
    /\ runs < MaxRuns
    /\ hash_seed' \in HashSeeds
    /\ pc' = "main"
    /\ data' = NoData
    /\ stdout' = <<>>
    /\ exit_status' = -1
    /\ output_written' = FALSE
    /\ prev_outfile' = outfile
    /\ runs' = runs + 1
    /\ UNCHANGED <<argc, disk, outfile>>
    /\ UNCHANGED <<extractVars, classifyVars>>

UnitIdle ==
    /\ file_info = <<>>
    /\ results = <<>>
    /\ problem_sets = EmptyProblemSets
    /\ added = <<>>

MainIdle ==
    /\ argc = 2
    /\ disk = [kind |-> "missing"]
    /\ hash_seed = 0
    /\ data = NoData
    /\ stdout = <<>>
    /\ exit_status = -1
    /\ outfile = NoFile
    /\ output_written = FALSE
    /\ prev_outfile = NoFile
    /\ runs = 1

Init ==
    /\ \/ argc \in {1, 3} /\ disk = [kind |-> "missing"]
       \/ argc = 2 /\ disk \in DiskStates
    /\ hash_seed \in HashSeeds
    /\ pc = "main"
    /\ data = NoData
    /\ stdout = <<>>
    /\ exit_status = -1
    /\ outfile = NoFile
    /\ output_written = FALSE
    /\ prev_outfile = NoFile
    /\ runs = 1
    /\ UnitIdle

Next ==
    \/ MainCheckArgs
    \/ load_data
    \/ GenerateReport
    \/ export_detailed_report
    \/ RemoveInputFile
    \/ Rerun

Spec == Init /\ [][Next]_vars

-----------------------------------------------------------------------------
(* extract_licenses_from_file applied to one file record *)

InitExtract ==
    /\ MainIdle
    /\ pc = "extract"
    /\ file_info \in ExtractInputs
    /\ results = <<>>
    /\ problem_sets = EmptyProblemSets
    /\ added = <<>>

Extract ==
    /\ pc = "extract"
    /\ results' = extract_licenses_from_file(file_info)
    /\ pc' = "extracted"
    /\ UNCHANGED <<mainVarsButPc, file_info, classifyVars>>

NextExtract == Extract

SpecExtract == InitExtract /\ [][NextExtract]_vars

-----------------------------------------------------------------------------
(* _add_to_problem_sets applied to a growing problem_sets *)

InitClassify ==
    /\ MainIdle
    /\ pc = "classify"
    /\ file_info = <<>>
    /\ results = <<>>
    /\ problem_sets = EmptyProblemSets
    /\ added = <<>>

AddToProblemSets ==
    /\ pc = "classify"
    /\ Len(added) < MaxAdds
    /\ \E license_key \in LicenseKeys, file_path \in Paths, score \in Scores :
          /\ problem_sets' = _add_to_problem_sets(problem_sets, license_key, file_path, score)
          /\ added' = Append(added, <<file_path, license_key, score>>)
    /\ UNCHANGED <<mainVars, extractVars>>

NextClassify == AddToProblemSets

SpecClassify == InitClassify /\ [][NextClassify]_vars

-----------------------------------------------------------------------------
(* Properties of main *)

ReportTitles ==
    {"SCANCODE LICENSE ANALYSIS REPORT", "BASIC STATISTICS", "LICENSE SUMMARY",
     "TOP 10 MOST COMMON LICENSES", "POTENTIAL LICENSE ISSUES", "FILES WITH SCAN ERRORS",
     "RECOMMENDATIONS"}

Printed(text) == \E i \in 1..Len(stdout) : stdout[i].line = text

NoReportPrinted == \A i \in 1..Len(stdout) : stdout[i].line \notin ReportTitles

\* C1: a run whose input path is missing, or whose input is not valid JSON,
\* ends with status 1 after printing only a diagnostic (naming the path when
\* the file is missing); it prints no report section and leaves the output
\* file as it was.  The output file is written only after a successful load and
\* a completed report, and only a run that wrote it ends with status 0.
C1_FatalLoadErrors ==
    /\ (pc = "exited" /\ argc = 2 /\ disk.kind = "missing")
          => /\ exit_status = 1
             /\ Len(stdout) = 1
             /\ stdout[1].line \in {"Error: File {} does not exist", "Error: File {} not found"}
             /\ stdout[1].file = InputPath
             /\ ~output_written
             /\ outfile = prev_outfile
    /\ (pc = "exited" /\ argc = 2 /\ disk.kind = "garbage")
          => /\ exit_status = 1
             /\ stdout = <<Line("Error parsing JSON: {}")>>
             /\ ~output_written
             /\ outfile = prev_outfile
    /\ (disk.kind \in {"missing", "garbage"} /\ argc = 2) => NoReportPrinted
    /\ (disk.kind \in {"missing", "garbage"}) => pc \notin {"report", "export"}
    /\ pc = "export" => (data # NoData /\ Printed("RECOMMENDATIONS"))
    /\ output_written => (data # NoData /\ Printed("RECOMMENDATIONS") /\ exit_status = 0)
    /\ exit_status = 0 => (output_written /\ pc = "exited")

C1_Witness ==
    /\ pc = "exited"
    /\ disk.kind = "garbage"
    /\ exit_status = 1
    /\ stdout = <<Line("Error parsing JSON: {}")>>
    /\ runs = 1

AllFieldsAbsent(files) == \A i \in 1..Len(files) : DOMAIN files[i] = {}

EmptyExport(out, n) ==
    /\ out.metadata.total_files = n
    /\ out.metadata.total_licenses = 0
    /\ out.metadata.total_license_detections = 0
    /\ out.license_statistics.order = <<>>
    /\ DOMAIN out.problematic_licenses = Range(Categories)
    /\ \A c \in Range(Categories) : out.problematic_licenses[c] = <<>>
    /\ out.scan_issues = <<>>
    /\ out.recommendations = <<>>

ExportedTriples(category) ==
    {<<x.file, x.name, x.score>> : x \in Range(outfile.problematic_licenses[category])}

\* the (file path, license key, score) triples of the findings of a document
FoundTriples(d) ==
    IF NoFilesSection(d) THEN {}
    ELSE UNION {LET fi == d.members.files[i]
                    found == extract_licenses_from_file(fi)
                IN  {<<Get(fi, "path", PathUnknown), found[j].key, found[j].score>> :
                         j \in 1..Len(found)} :
                i \in 1..Len(d.members.files)}

\* C7: the exported low_confidence list holds exactly the distinct triples of
\* the findings with score < 70, each once, whatever their key; a finding
\* "mit" with score 65 is in low_confidence and in no other category.
C7_LowConfidenceByScoreOnly ==
    output_written
       => LET low == outfile.problematic_licenses.low_confidence
          IN  /\ ExportedTriples("low_confidence") = {t \in FoundTriples(data) : t[3] < 70}
              /\ Len(low) = Cardinality(ExportedTriples("low_confidence"))
              /\ \A t \in FoundTriples(data) :
                    (t[2] = MIT /\ t[3] = 65)
                       => \A c \in Range(Categories) :
                             (t \in ExportedTriples(c)) <=> (c = "low_confidence")

C7_Witness ==
    /\ output_written
    /\ ~NoFilesSection(data)
    /\ Len(data.members.files) = 2
    /\ data.members.files[1] = data.members.files[2]
    /\ outfile.problematic_licenses.low_confidence
          = <<[file |-> PathB, name |-> MIT, score |-> 65]>>

RecommendedCategories == <<"gpl", "agpl", "unknown">>

Severity == [gpl |-> "high", agpl |-> "critical", unknown |-> "medium"]

\* C8: the exported recommendations hold one entry for each of gpl, agpl,
\* unknown whose listing is not empty, in that order, with the severity of
\* the category, and affected_files is the number of distinct file paths in
\* the category's listing.
C8_AffectedFilesCountsFiles ==
    output_written
       => LET recs == outfile.recommendations
              listed == SelectSeq(RecommendedCategories,
                                  LAMBDA c : outfile.problematic_licenses[c] # <<>>)
          IN  /\ Len(recs) = Len(listed)
              /\ \A i \in 1..Len(recs) :
                    /\ recs[i].category = listed[i]
                    /\ recs[i].severity = Severity[listed[i]]
                    /\ recs[i].affected_files
                          = Cardinality({x.file : x \in Range(outfile.problematic_licenses[listed[i]])})

\* the issues the scanner owes one file record
ExpectedIssues(fi) ==
    LET file_path == IF "path" \in DOMAIN fi THEN fi.path ELSE PathUnknown
        found == extract_licenses_from_file(fi)
        low == SelectSeq(found, LAMBDA lic : lic.score < 50)
        errors == IF "scan_errors" \in DOMAIN fi THEN fi.scan_errors ELSE <<>>
    IN  [scan |-> IF errors # <<>>
                  THEN <<[file |-> file_path, type |-> "scan_error", details |-> errors]>>
                  ELSE <<>>,
         low |-> [i \in 1..Len(low) |-> [file |-> file_path, key |-> low[i].key]]]

C3_ExportIsReproducible ==
    (output_written /\ prev_outfile.exists)
       => /\ outfile.license_statistics = prev_outfile.license_statistics
          /\ outfile.problematic_licenses = prev_outfile.problematic_licenses

-----------------------------------------------------------------------------
(* Properties of extract_licenses_from_file *)

HasExpression(fi) ==
    "detected_license_expression" \in DOMAIN fi /\ fi.detected_license_expression # <<>>

\* position in the result before the findings of license_detections
Lead(fi) == IF HasExpression(fi) THEN 1 ELSE 0

DetectionsOf(fi) == IF "license_detections" \in DOMAIN fi THEN fi.license_detections ELSE <<>>

LegacyOf(fi) == IF "licenses" \in DOMAIN fi THEN fi.licenses ELSE <<>>

\* C5: the result is the expression finding (if the expression is present and
\* not empty), then one finding per detection in list order, then one finding
\* per legacy license in list order, nothing dropped or merged; it is empty
\* when the record has none of the three members.
C5_AllShapesInOrder ==
    pc = "extracted"
       => LET dets == DetectionsOf(file_info)
              lics == LegacyOf(file_info)
              lead == Lead(file_info)
          IN  /\ Len(results) = lead + Len(dets) + Len(lics)
              /\ HasExpression(file_info)
                    => /\ results[1].key = file_info.detected_license_expression
                       /\ results[1].score = 100
              /\ \A i \in 1..Len(dets) :
                    results[lead + i].key
                       = IF "license_expression" \in DOMAIN dets[i]
                            /\ dets[i].license_expression # <<>>
                         THEN dets[i].license_expression
                         ELSE IF "license_expression_spdx" \in DOMAIN dets[i]
                                 /\ dets[i].license_expression_spdx # <<>>
                         THEN dets[i].license_expression_spdx
                         ELSE UNKNOWN
              /\ \A j \in 1..Len(lics) :
                    LET r == results[lead + Len(dets) + j]
                    IN  /\ r.key = IF "key" \in DOMAIN lics[j] THEN lics[j].key ELSE UNKNOWN
                        /\ r.name = IF "name" \in DOMAIN lics[j] THEN lics[j].name ELSE r.key
                        /\ r.score = IF "score" \in DOMAIN lics[j] THEN lics[j].score ELSE 100
              /\ (DOMAIN file_info \cap {"detected_license_expression", "license_detections",
                                         "licenses"} = {})
                    => results = <<>>

C5_Witness ==
    /\ pc = "extracted"
    /\ HasExpression(file_info)
    /\ Len(DetectionsOf(file_info)) = 2
    /\ Len(LegacyOf(file_info)) = 2
    /\ Len(results) = 5
    /\ results[1].key = results[4].key
    /\ results[4] = results[5]

MatchesOf(det) == IF "matches" \in DOMAIN det THEN det.matches ELSE <<>>

\* the scores that the match entries of a detection carry
ScoresFound(det) ==
    {MatchesOf(det)[k].score : k \in {n \in 1..Len(MatchesOf(det)) :
                                          "score" \in DOMAIN MatchesOf(det)[n]}}

\* C6 as stated: a detection's finding has the maximum of the scores found in
\* its match entries, and has score 100 exactly when it has no match entries.
C6_MaxOfFoundScores ==
    pc = "extracted"
       => \A i \in 1..Len(DetectionsOf(file_info)) :
             LET det == DetectionsOf(file_info)[i]
                 score == results[Lead(file_info) + i].score
             IN  /\ (score = 100) <=> (MatchesOf(det) = <<>>)
                 /\ ScoresFound(det) # {}
                       => /\ score \in ScoresFound(det)
                          /\ \A x \in ScoresFound(det) : x <= score

\* the score a match entry counts for
MatchScore(m) == IF "score" \in DOMAIN m THEN m.score ELSE 100

\* C6 amended: a detection's finding has the maximum over its match entries
\* of the entry's score, an entry without a score counting as 100, and has
\* score 100 when the detection has no match entries.
C6_MaxWithDefault ==
    pc = "extracted"
       => \A i \in 1..Len(DetectionsOf(file_info)) :
             LET det == DetectionsOf(file_info)[i]
                 score == results[Lead(file_info) + i].score
             IN  IF MatchesOf(det) = <<>> THEN score = 100
                 ELSE /\ \E k \in 1..Len(MatchesOf(det)) : score = MatchScore(MatchesOf(det)[k])
                      /\ \A k \in 1..Len(MatchesOf(det)) : MatchScore(MatchesOf(det)[k]) <= score

C6_Witness ==
    /\ pc = "extracted"
    /\ Len(DetectionsOf(file_info)) = 1
    /\ MatchesOf(DetectionsOf(file_info)[1]) = <<[score |-> 40], [score |-> 90]>>
    /\ results[1].score = 90

-----------------------------------------------------------------------------
(* Properties of _add_to_problem_sets *)

InCategory(t, category) == t \in Range(problem_sets[category])

HasFragment(license_key, fragment) ==
    \E i \in 1..Len(license_key) :
        /\ i + Len(fragment) - 1 <= Len(license_key)
        /\ \A j \in 1..Len(fragment) : LowerChar[license_key[i + j - 1]] = fragment[j]

\* C2 as stated: a triple whose key contains "gpl-2.0", in any letter case,
\* is in gpl and in copyleft and is not in agpl.
C2_Gpl2NeverAgpl ==
    \A k \in 1..Len(added) :
        HasFragment(added[k][2], GPL_2_0)
           => /\ InCategory(added[k], "gpl")
              /\ InCategory(added[k], "copyleft")
              /\ ~InCategory(added[k], "agpl")

\* C2 amended: a triple whose key contains "gpl-2.0", in any letter case, is
\* in gpl and in copyleft; it is in agpl exactly when its key also contains
\* "agpl-3.0" or "gpl-3.0-plus".
C2_Gpl2AgplOnlyByOwnFragment ==
    \A k \in 1..Len(added) :
        HasFragment(added[k][2], GPL_2_0)
           => /\ InCategory(added[k], "gpl")
              /\ InCategory(added[k], "copyleft")
              /\ InCategory(added[k], "agpl")
                    <=> (HasFragment(added[k][2], AGPL_3_0)
                         \/ HasFragment(added[k][2], GPL_3_0_PLUS))

C2_Witness ==
    /\ Len(added) = 2
    /\ added[1][2] = GPL_2_0_UPPER
    /\ InCategory(added[1], "gpl")
    /\ InCategory(added[1], "copyleft")
    /\ ~InCategory(added[1], "agpl")
    /\ added[2][2] = GPL_2_0_AND_AGPL_3_0
    /\ InCategory(added[2], "agpl")

\* C10: every triple in agpl is in gpl, every triple in gpl is in copyleft and
\* in commercial_unfriendly, so the lists shrink from copyleft to gpl to agpl;
\* and the recommendations never hold an agpl entry without a gpl entry
\* before it.
C10_NestedCategories ==
    /\ Range(problem_sets.agpl) \subseteq Range(problem_sets.gpl)
    /\ Range(problem_sets.gpl) \subseteq Range(problem_sets.copyleft)
    /\ Range(problem_sets.gpl) \subseteq Range(problem_sets.commercial_unfriendly)
    /\ Len(problem_sets.agpl) <= Len(problem_sets.gpl)
    /\ Len(problem_sets.gpl) <= Len(problem_sets.copyleft)
    /\ \A seed \in HashSeeds :
          LET recs == generate_recommendations(_convert_problem_sets_to_list(problem_sets, seed))
          IN  \A i \in 1..Len(recs) :
                 recs[i].category = "agpl"
                    => \E j \in 1..(i - 1) : recs[j].category = "gpl"

C10_Witness ==
    /\ Len(added) = 2
    /\ added[1][2] = GPL_3_0_PLUS
    /\ added[2][2] = AGPL_3_0
    /\ Len(problem_sets.agpl) = 2
    /\ Len(problem_sets.gpl) = 2
    /\ Len(problem_sets.copyleft) = 2

====
